---- MODULE Spec2Model ----
(***************************************************************************)
(* Playlist reconciliation of MFAPI (PlaylistSyncService): a user's remote *)
(* playlist catalog is paged in, compared with the user's UserPlaylists    *)
(* rows, and the Playlists / UserPlaylists / SpotifySyncStates tables are  *)
(* brought in line with it.  Every request runs SyncUserPlaylistsAsync on  *)
(* its own scoped DbContext; requests interleave at every await.           *)
(***************************************************************************)
EXTENDS Integers, Sequences, FiniteSets, TLC

\* ---------------------------------------------------------------- bounds
Procs == {"p1", "p2"}          \* concurrently served requests
Users == {"u1", "u2"}          \* userId values
RaceIds == {"A", "B"}          \* Spotify playlist ids seen by the concurrent runs
MaxItems == 2                  \* items in one user's remote catalog
MaxRuns == 2                   \* sync requests served in one behaviour
MaxTok == 1                    \* snapshot_id values are 0..MaxTok
WideIds == {"A", "B", "C", "D"} \* Spotify playlist ids seen by the one-at-a-time runs
MaxWideItems == 3              \* items in a remote catalog of the one-at-a-time runs

NoRow == 0                     \* "null" for a row id (row ids start at 1)

Providers == {"d1", "d2"}      \* mounted ListeningHistoryProviders (two devices of one user)
MIN_SYNC_INTERVAL_MS == 10000  \* 10 * 1000
TickMs == 2500                 \* the clock is read every TickMs milliseconds
MaxTicks == 5                  \* clock readings in one behaviour

MaxOwnedItems == 1             \* items in a remote catalog whose items name their owner

MaxPages == 3                  \* pages the remote API holds for one fetch
MaxPageLen == 1                \* items on one page

VARIABLES
  playlists,        \* table Playlists: rows [id, sid, tok]
  userPlaylists,    \* table UserPlaylists: rows [id, userId, playlistId, relation]
  syncStates,       \* table SpotifySyncStates: rows [id, userId, at]
  userPlaylistSeq,  \* the last key generated for UserPlaylists (keys are not reused)
  runs,             \* number of sync requests started so far
  ctx,              \* per request: the locals of SyncUserPlaylistsAsync and its DbContext
  gh,               \* per request: what the request has observed and done (history)
  lastClean,        \* the last request that returned with nothing overlapping it
  now,              \* Date.now() on the devices, in milliseconds
  provider,         \* per mounted ListeningHistoryProvider: its refs and state
  pager             \* one run of FetchAllPlaylistsFromSpotifyAsync over the pages of the API

vars == <<playlists, userPlaylists, syncStates, userPlaylistSeq, runs, ctx, gh, lastClean, now, provider, pager>>

\* what the sync service does not touch
outside == <<now, provider, pager>>

\* what the client does not touch
service == <<playlists, userPlaylists, syncStates, userPlaylistSeq, runs, ctx, gh, lastClean>>

dbvars == <<playlists, userPlaylists, syncStates, userPlaylistSeq>>

\* ---------------------------------------------------------------- helpers
SeqsUpTo(S, n) == UNION {[1..k -> S] : k \in 0..n}

\* the key the database gives a row inserted into a table that loses no rows: one more
\* than the largest in the table
NextId(rows) ==
  IF rows = {} THEN 1
  ELSE 1 + (CHOOSE m \in {r.id : r \in rows} : \A x \in rows : x.id <= m)

\* a remote item: the "id" and "snapshot_id" properties of lines 67 and 74
Items == [id : RaceIds, tok : 0..MaxTok]

IdRank(e) == CASE e = "A" -> 1 [] e = "B" -> 2 [] e = "C" -> 3 [] OTHER -> 4

WideItems == [id : WideIds, tok : 0..MaxTok]

\* the remote catalog is keyed by id: an id listed twice carries one snapshot_id
Keyed(s) == \A i, j \in 1..Len(s) : s[i].id = s[j].id => s[i].tok = s[j].tok

Active(c) == c.pc \notin {"idle", "returned", "failed"}

\* ---------------------------------------------------------------- users and owners
\* a C# null string
Null == "null"

\* Users.FindAsync(userId) found no row (lines 114 and 191)
NoUser == [id |-> "none", spotifyId |-> Null]

\* User.SpotifyId of the users
SpotifyIdOf(u) == IF u = "u1" THEN "s1" ELSE "s2"

\* the Users row of u
UserRow(u) == [id |-> u, spotifyId |-> SpotifyIdOf(u)]

\* lines 86-92: ownerSpotifyId is the "id" of the item's "owner", null when the item
\* has no "owner" or the owner no "id"
OwnerSpotifyId(it) == IF "owner" \in DOMAIN it THEN it.owner ELSE Null

\* user?.SpotifyId
UserSpotifyId(user) == IF user = NoUser THEN Null ELSE user.spotifyId

\* lines 153-155 and 205-207: ownerSpotifyId == user?.SpotifyId ? Owner : Subscriber
\* (two null strings are equal)
Relation(ownerSpotifyId, user) ==
  IF ownerSpotifyId = UserSpotifyId(user) THEN "Owner" ELSE "Subscriber"

\* ---------------------------------------------------------------- request state
NoResult == [added |-> 0, updated |-> 0, removed |-> 0]

IdleCtx ==
  [pc |-> "idle", userId |-> "u1", allPlaylists |-> <<>>,
   existingUserPlaylists |-> {}, idx |-> 0, tracked |-> {}, cur |-> NoRow,
   deleted |-> {}, syncStateFound |-> FALSE, result |-> NoResult,
   outcome |-> "none", user |-> NoUser]

\* no request has returned undisturbed since the last one began
NoClean == [ok |-> FALSE, userId |-> "u1", R |-> <<>>]

IdleGh ==
  [overlapSame |-> FALSE, overlapAny |-> FALSE,
   second |-> FALSE, wrote |-> FALSE, insRel |-> {}, delRel |-> {},
   updApplied |-> {}, insPl |-> {}, fellBack |-> {}, sawAbsent |-> {},
   tok0 |-> {}, retRel |-> {}, prev |-> NoClean, fetchFailed |-> FALSE,
   relConflict |-> {}, failKind |-> "none", resumed |-> FALSE, faultAt |-> "none"]

\* the item the foreach of line 65 is at
Item(c) == c.allPlaylists[c.idx]

\* spotifyPlaylistIds, line 60
SpotifyPlaylistIds(c) == {c.allPlaylists[i].id : i \in 1..Len(c.allPlaylists)}

\* existingPlaylistSpotifyIds, line 56
ExistingSpotifyIds(c) == {l.sid : l \in c.existingUserPlaylists}

\* ---------------------------------------------------------------- the store
\* _context.Playlists.FirstOrDefaultAsync(p => p.SpotifyId == spotifyId): the rows a
\* query by SpotifyId matches (at most one under the unique index)
PlaylistsBySid(sid) == {r \in playlists : r.sid = sid}

\* mutant: no unique index on Playlists.SpotifyId
PlaylistInsertUnchecked(sid) == TRUE

\* the unique index on Playlists.SpotifyId that the handler of line 125 relies on
PlaylistInsertAllowed(sid) == PlaylistsBySid(sid) = {}

\* _context.UserPlaylists.FirstOrDefaultAsync(up => up.UserId == .. && up.PlaylistId == ..)
RelRows(u, pid) == {r \in userPlaylists : r.userId = u /\ r.playlistId = pid}

\* mutant: (UserId, PlaylistId) is not unique
RelInsertUnchecked(u, pid) == TRUE

\* the uniqueness of (UserId, PlaylistId) that the handlers of lines 161 and 214 rely on
RelInsertAllowed(u, pid) == RelRows(u, pid) = {}

\* mutant: SpotifySyncStates takes any number of rows for a user
SyncStateInsertUnchecked(u) == TRUE

\* one SpotifySyncStates row per user
SyncStateInsertAllowed(u) == \A s \in syncStates : s.userId # u

\* the SpotifyIds of the playlists user u is related to
RelSids(u) ==
  {r.sid : r \in {x \in playlists :
                    \E up \in userPlaylists : up.userId = u /\ up.playlistId = x.id}}

\* ---------------------------------------------------------------- the DbContext
\* the tracked Playlist entity with key id, if the context tracks one
TrackedOf(c, id) == {t \in c.tracked : t.id = id}

\* a tracking query hands back the instance the context already tracks (its values as
\* they were read, plus what the request assigned since), and starts tracking the row
\* read otherwise
Materialize(c, row) ==
  IF TrackedOf(c, row.id) # {}
    THEN CHOOSE t \in TrackedOf(c, row.id) : TRUE
    ELSE [id |-> row.id, sid |-> row.sid, tok |-> row.tok, orig |-> row.tok]

\* the entities DetectChanges finds Modified
Modified(c) == {t \in c.tracked : t.tok # t.orig}

\* mutant: the save leaves the Modified playlists unwritten
FlushNothing(c, rows) == rows

\* SaveChanges writes every Modified playlist (UPDATE ... WHERE Id = ..)
FlushPlaylists(c, rows) ==
  {IF \E t \in Modified(c) : t.id = r.id
     THEN [r EXCEPT !.tok = (CHOOSE t \in Modified(c) : t.id = r.id).tok]
     ELSE r : r \in rows}

\* after a successful SaveChanges the written values are the original values
AcceptChanges(tr) == {[t EXCEPT !.orig = t.tok] : t \in tr}

\* history: the UPDATE statements a SaveChanges of c issues, added to the ones before
NoteUpdates(g, c) ==
  [g EXCEPT !.updApplied = @ \cup {[sid |-> t.sid, n |-> Cardinality({x \in g.updApplied : x.sid = t.sid}) + 1] : t \in Modified(c)},
            !.wrote = @ \/ Modified(c) # {}]

\* ---------------------------------------------------------------- the loop body
\* mutants of the comparison: every item counts as changed; none does
SnapshotAlwaysDiffers(stored, remote) == TRUE

SnapshotNeverDiffers(stored, remote) == FALSE

\* line 175: existingPlaylist.SnapshotId != snapshotId
SnapshotDiffers(stored, remote) == stored # remote

\* mutant: the relationship is looked for among the fetched ids, not the loaded rows
UserPlaylistExistsInFetched(c, sid) == sid \in SpotifyPlaylistIds(c)

\* line 188: existingUserPlaylists.Any(up => up.Playlist.SpotifyId == spotifyId)
UserPlaylistExists(c, sid) == sid \in ExistingSpotifyIds(c)

\* mutant: the removal loop tests the loaded ids against themselves, not the fetched ids
MarkRemovalsWrongSet(c) ==
  LET gone == {l \in c.existingUserPlaylists : l.sid \notin ExistingSpotifyIds(c)}
  IN [c EXCEPT !.deleted = gone,
               !.result.removed = @ + Cardinality(gone),
               !.cur = NoRow,
               !.pc = "syncq"]

\* mutant: the removal loop's test is inverted
MarkRemovalsInverted(c) ==
  LET gone == {l \in c.existingUserPlaylists : l.sid \in SpotifyPlaylistIds(c)}
  IN [c EXCEPT !.deleted = gone,
               !.result.removed = @ + Cardinality(gone),
               !.cur = NoRow,
               !.pc = "syncq"]

\* lines 223-233: after the last item, mark every loaded relationship whose SpotifyId
\* is not among the fetched ids as Deleted and count it
MarkRemovals(c) ==
  LET gone == {l \in c.existingUserPlaylists : l.sid \notin SpotifyPlaylistIds(c)}
  IN [c EXCEPT !.deleted = gone,
               !.result.removed = @ + Cardinality(gone),
               !.cur = NoRow,
               !.pc = "syncq"]

\* the foreach of line 65 moves on (also by the continue of lines 133 and 170)
NextItem(c) ==
  IF c.idx < Len(c.allPlaylists)
    THEN [c EXCEPT !.idx = @ + 1, !.cur = NoRow, !.pc = "lookup"]
    ELSE MarkRemovals(c)

\* mutant: the relationship is ensured for playlists the request creates only
ExistingNoEnsure(c, row) ==
  LET t == Materialize(c, row)
      differs == SnapshotDiffers(t.tok, Item(c).tok)
      t2 == IF differs THEN [t EXCEPT !.tok = Item(c).tok] ELSE t
      c1 == [c EXCEPT !.tracked = (@ \ TrackedOf(c, row.id)) \cup {t2},
                      !.result.updated = IF differs THEN @ + 1 ELSE @]
  IN NextItem(c1)

\* lines 174-189 for a playlist row that exists: compare the snapshot of the entity the
\* context holds, overwrite it in memory and count it when it differs, then go on to
\* the relationship check unless the loaded list already has the relationship
Existing(c, row) ==
  LET t == Materialize(c, row)
      differs == SnapshotDiffers(t.tok, Item(c).tok)
      t2 == IF differs THEN [t EXCEPT !.tok = Item(c).tok] ELSE t
      c1 == [c EXCEPT !.tracked = (@ \ TrackedOf(c, row.id)) \cup {t2},
                      !.result.updated = IF differs THEN @ + 1 ELSE @]
  IN IF UserPlaylistExists(c1, Item(c).id)
       THEN NextItem(c1)
       ELSE [c1 EXCEPT !.pc = "checkRel", !.cur = row.id]

\* FirstOrDefault: the first matching row
FirstRow(rows) == CHOOSE r \in rows : \A x \in rows : r.id <= x.id

\* what is left of a request's locals once it has returned or thrown
Finished(c, pc, outcome) ==
  [IdleCtx EXCEPT !.pc = pc, !.outcome = outcome, !.userId = c.userId,
                  !.allPlaylists = c.allPlaylists,
                  !.existingUserPlaylists = c.existingUserPlaylists,
                  !.result = c.result]

\* ---------------------------------------------------------------- actions
\* the users whose requests a server task serves
UsersOf(p) == IF p = "p1" THEN {"u1"} ELSE Users

\* SyncUserPlaylistsAsync is called for user u (line 38); user is what
\* Users.FindAsync(userId) finds while the request runs
StartSyncAs(p, u, user) ==
    /\ ~Active(ctx[p])
    /\ runs < MaxRuns
    /\ runs' = runs + 1
    /\ ctx' = [ctx EXCEPT ![p] = [IdleCtx EXCEPT !.pc = "fetch", !.userId = u, !.user = user]]
    /\ gh' = [q \in Procs |->
               IF q = p
                 THEN [IdleGh EXCEPT
                         !.overlapAny = \E o \in Procs \ {p} : Active(ctx[o]),
                         !.overlapSame = \E o \in Procs \ {p} : Active(ctx[o]) /\ ctx[o].userId = u,
                         !.prev = IF lastClean.ok /\ lastClean.userId = u THEN lastClean ELSE NoClean,
                         !.resumed = \E o \in Procs \ {p} : ctx[o].pc = "failed" /\ ctx[o].userId = u]
                 ELSE IF Active(ctx[q])
                   THEN [gh[q] EXCEPT !.overlapAny = TRUE,
                                      !.overlapSame = @ \/ ctx[q].userId = u]
                   ELSE gh[q]]
    /\ lastClean' = NoClean
    /\ UNCHANGED <<dbvars, outside>>

\* SyncUserPlaylistsAsync is called for a user whose Users row is there
StartSync(p, u) == StartSyncAs(p, u, UserRow(u))

\* a request arrives while others may be in flight
Begin(p) == \E u \in UsersOf(p) : StartSync(p, u)

\* a request arrives for a user whose Users row may be gone
BeginOwner(p) ==
  \E u \in UsersOf(p) : \E user \in {UserRow(u), NoUser} : StartSyncAs(p, u, user)

\* a request arrives while no other is in flight (u2's, if any, is the first served)
BeginAlone ==
  \E u \in Users :
    /\ \A q \in Procs : ~Active(ctx[q])
    /\ u = "u2" => runs = 0
    /\ StartSync("p1", u)

\* lines 271-297, one turn of the while loop with a successful response: the items of
\* the page are appended and nextUrl becomes the page's next link, which the last
\* page does not have
FetchFrom(p, universe, cap) ==
  LET c == ctx[p]
  IN /\ c.pc = "fetch"
     /\ \E page \in SeqsUpTo(universe, cap - Len(c.allPlaylists)), more \in BOOLEAN :
          /\ Keyed(c.allPlaylists \o page)
          /\ ctx' = [ctx EXCEPT ![p] = [c EXCEPT !.allPlaylists = @ \o page,
                                                 !.pc = IF more THEN "fetch" ELSE "load"]]
          /\ gh' = [gh EXCEPT ![p].second =
                      ~more /\ gh[p].prev.ok /\ gh[p].prev.R = c.allPlaylists \o page]
     /\ UNCHANGED <<dbvars, runs, lastClean, outside>>

FetchPage(p) == FetchFrom(p, Items, MaxItems)

\* remote items with an "owner" whose "id" is a user's Spotify id or missing, and
\* remote items without "owner"
OwnedItems ==
  [id : {"A"}, tok : {0}, owner : {SpotifyIdOf(u) : u \in Users} \cup {Null}]
    \cup [id : {"A"}, tok : {0}]

FetchPageOwned(p) == FetchFrom(p, OwnedItems, MaxOwnedItems)

\* the pages of the one-at-a-time runs: a wider catalog, listed in one fixed order
\* (an id may repeat)
FetchPageWide(p) ==
  /\ FetchFrom(p, WideItems, MaxWideItems)
  /\ \A i, j \in 1..Len(ctx'[p].allPlaylists) :
        i < j => IdRank(ctx'[p].allPlaylists[i].id) <= IdRank(ctx'[p].allPlaylists[j].id)

\* mutant: a failed page ends the loop and the pages read so far are returned
FetchFailSwallowed(p) ==
  /\ ctx[p].pc = "fetch"
  /\ ctx' = [ctx EXCEPT ![p].pc = "load"]
  /\ gh' = [gh EXCEPT ![p].fetchFailed = TRUE]
  /\ UNCHANGED <<dbvars, runs, lastClean, outside>>

\* the ways a page request fails: the status of a non-success response, or no response
\* at all
FailKinds == {"Unauthorized", "InternalServerError", "NoResponse"}

\* the type of the exception a failed page request raises: GetAsync throws
\* HttpRequestException when there is no response (line 273); every non-success
\* status is thrown as a plain Exception whose message names the status (line 279)
FetchException(kind) == IF kind = "NoResponse" THEN "HttpRequestException" ELSE "Exception"

\* mutant: the failed fetch still stamps the user's sync state row
FetchFailStamps(p) ==
  /\ ctx[p].pc = "fetch"
  /\ \E kind \in FailKinds :
       /\ ctx' = [ctx EXCEPT ![p] = Finished(ctx[p], "failed", FetchException(kind))]
       /\ gh' = [gh EXCEPT ![p].fetchFailed = TRUE, ![p].failKind = kind]
  /\ syncStates' = {IF s.userId = ctx[p].userId THEN [s EXCEPT !.at = runs] ELSE s :
                      s \in syncStates}
  /\ UNCHANGED <<playlists, userPlaylists, userPlaylistSeq, runs, lastClean, outside>>

\* lines 273-280: the page request fails; the exception leaves
\* SyncUserPlaylistsAsync through the catch of line 256, which rethrows it
FetchFail(p) ==
  /\ ctx[p].pc = "fetch"
  /\ \E kind \in FailKinds :
       /\ ctx' = [ctx EXCEPT ![p] = Finished(ctx[p], "failed", FetchException(kind))]
       /\ gh' = [gh EXCEPT ![p].fetchFailed = TRUE, ![p].failKind = kind]
  /\ UNCHANGED <<dbvars, runs, lastClean, outside>>

\* mutant: the relationships of every user are loaded
LoadLocalAllUsers(p) ==
  LET c == ctx[p]
      mine == userPlaylists
      L == {[id |-> up.id, userId |-> up.userId, playlistId |-> up.playlistId,
             sid |-> (CHOOSE r \in playlists : r.id = up.playlistId).sid] : up \in mine}
      inc == {r \in playlists : \E up \in mine : up.playlistId = r.id}
      c1 == [c EXCEPT !.existingUserPlaylists = L,
                      !.tracked = {Materialize(c, r) : r \in inc}]
  IN /\ c.pc = "load"
     /\ ctx' = [ctx EXCEPT ![p] = NextItem(c1)]
     /\ gh' = [gh EXCEPT ![p].tok0 = {[sid |-> r.sid, tok |-> r.tok] : r \in playlists}]
     /\ UNCHANGED <<dbvars, runs, lastClean, outside>>

\* lines 51-62: the user's relationships with their playlists are read and tracked
LoadLocal(p) ==
  LET c == ctx[p]
      mine == {up \in userPlaylists : up.userId = c.userId}
      L == {[id |-> up.id, userId |-> up.userId, playlistId |-> up.playlistId,
             sid |-> (CHOOSE r \in playlists : r.id = up.playlistId).sid] : up \in mine}
      inc == {r \in playlists : \E up \in mine : up.playlistId = r.id}
      c1 == [c EXCEPT !.existingUserPlaylists = L,
                      !.tracked = {Materialize(c, r) : r \in inc}]
  IN /\ c.pc = "load"
     /\ ctx' = [ctx EXCEPT ![p] = NextItem(c1)]
     /\ gh' = [gh EXCEPT ![p].tok0 = {[sid |-> r.sid, tok |-> r.tok] : r \in playlists}]
     /\ UNCHANGED <<dbvars, runs, lastClean, outside>>

\* lines 95-98 (and on to 189 when the row exists)
Lookup(p) ==
  LET c == ctx[p]
      rows == PlaylistsBySid(Item(c).id)
  IN /\ c.pc = "lookup"
     /\ IF rows = {}
          THEN /\ ctx' = [ctx EXCEPT ![p].pc = "create"]
               /\ gh' = [gh EXCEPT ![p].sawAbsent = @ \cup {Item(c).id}]
          ELSE /\ ctx' = [ctx EXCEPT ![p] = Existing(c, FirstRow(rows))]
               /\ gh' = gh
     /\ UNCHANGED <<dbvars, runs, lastClean, outside>>

\* mutant: the key is read from newPlaylist before the save has generated it
NewPlaylistIdUnsaved(row) == NoRow

\* newPlaylist.Id, the key the save generated (lines 143 and 152)
NewPlaylistId(row) == row.id

\* lines 100-136: Add(newPlaylist) and SaveChangesAsync. The save writes the pending
\* playlist updates and the new row in one transaction; when the unique index on
\* SpotifyId rejects the row, nothing is written and the handler of line 125 detaches
\* newPlaylist and goes on to re-read the row
Create(p) ==
  LET c == ctx[p]
      it == Item(c)
      row == [id |-> NextId(playlists), sid |-> it.id, tok |-> it.tok]
  IN /\ c.pc = "create"
     /\ IF PlaylistInsertAllowed(it.id)
          THEN /\ playlists' = FlushPlaylists(c, playlists) \cup {row}
               /\ ctx' = [ctx EXCEPT ![p] =
                            [c EXCEPT !.tracked = AcceptChanges(@) \cup {Materialize(c, row)},
                                      !.cur = NewPlaylistId(row),
                                      !.pc = "checkRelNew"]]
               /\ gh' = [gh EXCEPT ![p] = [NoteUpdates(gh[p], c) EXCEPT
                                             !.insPl = @ \cup {it.id}, !.wrote = TRUE]]
          ELSE /\ ctx' = [ctx EXCEPT ![p].pc = "refetch"]
               /\ gh' = [gh EXCEPT ![p].fellBack = @ \cup {it.id}]
               /\ UNCHANGED playlists
     /\ UNCHANGED <<userPlaylists, syncStates, userPlaylistSeq, runs, lastClean, outside>>

\* mutant: after the conflict the item is skipped
RefetchSkips(p) ==
  /\ ctx[p].pc = "refetch"
  /\ ctx' = [ctx EXCEPT ![p] = NextItem(ctx[p])]
  /\ UNCHANGED <<dbvars, runs, gh, lastClean, outside>>

\* lines 129-136: the fallback read after the conflict; a row that still cannot be
\* read is logged and the item skipped
Refetch(p) ==
  LET c == ctx[p]
      rows == PlaylistsBySid(Item(c).id)
  IN /\ c.pc = "refetch"
     /\ ctx' = [ctx EXCEPT ![p] = IF rows = {} THEN NextItem(c) ELSE Existing(c, FirstRow(rows))]
     /\ UNCHANGED <<dbvars, runs, gh, lastClean, outside>>

\* mutant: the item is counted twice
CountAddedTwice(c) == [c EXCEPT !.result.added = @ + 2]

\* PlaylistsAdded++ (lines 168 and 212)
CountAdded(c) == [c EXCEPT !.result.added = @ + 1]

\* lines 142-145 and 168-170: the relationship to the playlist just created is looked
\* up; when it is there the item is counted as added and the loop continues
CheckRelNew(p) ==
  LET c == ctx[p]
  IN /\ c.pc = "checkRelNew"
     /\ ctx' = [ctx EXCEPT ![p] = IF RelRows(c.userId, c.cur) = {}
                                    THEN [c EXCEPT !.pc = "addRelNew"]
                                    ELSE NextItem(CountAdded(c))]
     /\ UNCHANGED <<dbvars, runs, gh, lastClean, outside>>

\* mutant: the handler rethrows
SaveRelationshipRethrows(p, pid, cOk, cConflict) ==
  LET c == ctx[p]
      row == [id |-> userPlaylistSeq + 1, userId |-> c.userId, playlistId |-> pid,
              relation |-> Relation(OwnerSpotifyId(Item(c)), c.user)]
  IN IF RelInsertAllowed(c.userId, pid)
       THEN /\ userPlaylists' = userPlaylists \cup {row}
            /\ userPlaylistSeq' = row.id
            /\ playlists' = FlushPlaylists(c, playlists)
            /\ ctx' = [ctx EXCEPT ![p] = NextItem([cOk EXCEPT !.tracked = AcceptChanges(@)])]
            /\ gh' = [gh EXCEPT ![p] = [NoteUpdates(gh[p], c) EXCEPT
                                          !.insRel = @ \cup {[id |-> row.id, sid |-> Item(c).id]},
                                          !.wrote = TRUE]]
       ELSE /\ ctx' = [ctx EXCEPT ![p] = Finished(c, "failed", "DbUpdateException")]
            /\ gh' = [gh EXCEPT ![p].relConflict = @ \cup {Item(c).id}]
            /\ UNCHANGED <<userPlaylists, userPlaylistSeq, playlists>>

\* a SaveChangesAsync that inserts the relationship (userId, pid): it writes the row and
\* the pending playlist updates, or, when (UserId, PlaylistId) is taken, writes
\* nothing and the handler clears the change tracker
SaveRelationship(p, pid, cOk, cConflict) ==
  LET c == ctx[p]
      row == [id |-> userPlaylistSeq + 1, userId |-> c.userId, playlistId |-> pid,
              relation |-> Relation(OwnerSpotifyId(Item(c)), c.user)]
  IN IF RelInsertAllowed(c.userId, pid)
       THEN /\ userPlaylists' = userPlaylists \cup {row}
            /\ userPlaylistSeq' = row.id
            /\ playlists' = FlushPlaylists(c, playlists)
            /\ ctx' = [ctx EXCEPT ![p] = NextItem([cOk EXCEPT !.tracked = AcceptChanges(@)])]
            /\ gh' = [gh EXCEPT ![p] = [NoteUpdates(gh[p], c) EXCEPT
                                          !.insRel = @ \cup {[id |-> row.id, sid |-> Item(c).id]},
                                          !.wrote = TRUE]]
       ELSE /\ ctx' = [ctx EXCEPT ![p] = NextItem([cConflict EXCEPT !.tracked = {}])]
            /\ gh' = [gh EXCEPT ![p].relConflict = @ \cup {Item(c).id}]
            /\ UNCHANGED <<userPlaylists, userPlaylistSeq, playlists>>

\* lines 147-170: the relationship to the playlist this request created is added;
\* PlaylistsAdded++ follows the try/catch
AddRelNew(p) ==
  /\ ctx[p].pc = "addRelNew"
  /\ SaveRelationship(p, ctx[p].cur, CountAdded(ctx[p]), CountAdded(ctx[p]))
  /\ UNCHANGED <<syncStates, runs, lastClean, outside>>

\* lines 191-197: the double check for a playlist that existed
CheckRel(p) ==
  LET c == ctx[p]
  IN /\ c.pc = "checkRel"
     /\ ctx' = [ctx EXCEPT ![p] = IF RelRows(c.userId, c.cur) = {}
                                    THEN [c EXCEPT !.pc = "addRel"]
                                    ELSE NextItem(c)]
     /\ UNCHANGED <<dbvars, runs, gh, lastClean, outside>>

\* lines 199-218: the relationship to a playlist that existed is added;
\* PlaylistsAdded++ is inside the try, after the save
AddRel(p) ==
  /\ ctx[p].pc = "addRel"
  /\ SaveRelationship(p, ctx[p].cur, CountAdded(ctx[p]), ctx[p])
  /\ UNCHANGED <<syncStates, runs, lastClean, outside>>

\* mutant: the time is written as soon as the row is looked up
SyncQueryStamps(p) ==
  /\ ctx[p].pc = "syncq"
  /\ ctx' = [ctx EXCEPT ![p] = [ctx[p] EXCEPT
                                  !.syncStateFound = \E s \in syncStates : s.userId = ctx[p].userId,
                                  !.pc = "save"]]
  /\ syncStates' = {IF s.userId = ctx[p].userId THEN [s EXCEPT !.at = runs] ELSE s :
                      s \in syncStates}
  /\ UNCHANGED <<playlists, userPlaylists, userPlaylistSeq, runs, gh, lastClean, outside>>

\* lines 236-243: the user's sync state row is looked up
SyncQuery(p) ==
  /\ ctx[p].pc = "syncq"
  /\ ctx' = [ctx EXCEPT ![p] = [ctx[p] EXCEPT
                                  !.syncStateFound = \E s \in syncStates : s.userId = ctx[p].userId,
                                  !.pc = "save"]]
  /\ UNCHANGED <<dbvars, runs, gh, lastClean, outside>>

\* mutant: a removal keeps the row (a soft delete)
DeletedRowsKept(c) == {}

\* the rows the DELETE statements of a SaveChanges hit (DELETE ... WHERE Id = ..)
DeletedRows(c) ==
  {r \in userPlaylists : \E d \in c.deleted : d.id = r.id}

\* lines 246-260: the last SaveChangesAsync writes, in one transaction, the pending
\* playlist updates, the DELETE of every relationship marked, and the sync state row.
\* A DELETE that hits no row or a second sync state row for the user makes it throw:
\* nothing is written and the exception leaves through the catch of line 256
FinalSave(p) ==
  LET c == ctx[p]
      canDelete == \A d \in c.deleted : \E r \in userPlaylists : r.id = d.id
      canState == c.syncStateFound \/ SyncStateInsertAllowed(c.userId)
      clean == ~gh[p].overlapAny
  IN /\ c.pc = "save"
     /\ IF canDelete /\ canState
          THEN /\ playlists' = FlushPlaylists(c, playlists)
               /\ userPlaylists' = userPlaylists \ DeletedRows(c)
               /\ syncStates' =
                    IF c.syncStateFound
                      THEN {IF s.userId = c.userId THEN [s EXCEPT !.at = runs] ELSE s :
                              s \in syncStates}
                      ELSE syncStates \cup {[id |-> NextId(syncStates),
                                              userId |-> c.userId, at |-> runs]}
               /\ ctx' = [ctx EXCEPT ![p] = Finished(c, "returned", "result")]
               /\ gh' = [gh EXCEPT ![p] = [NoteUpdates(gh[p], c) EXCEPT
                            !.delRel = DeletedRows(c),
                            !.wrote = @ \/ DeletedRows(c) # {},
                            !.retRel = RelSids(c.userId)']]
               /\ lastClean' = IF clean THEN [ok |-> TRUE, userId |-> c.userId, R |-> c.allPlaylists]
                                        ELSE lastClean
          ELSE /\ ctx' = [ctx EXCEPT ![p] = Finished(c, "failed", "DbUpdateException")]
               /\ UNCHANGED <<playlists, userPlaylists, syncStates, gh, lastClean>>
     /\ UNCHANGED <<userPlaylistSeq, runs, outside>>

\* the call is abandoned at an await (the host stops, or the request is torn down):
\* nothing more of it runs; what its SaveChangesAsync calls committed stays
Abandon(p) ==
  /\ Active(ctx[p])
  /\ ctx' = [ctx EXCEPT ![p] = Finished(ctx[p], "failed", "abandoned")]
  /\ UNCHANGED <<dbvars, runs, gh, lastClean, outside>>

\* ---------------------------------------------------------------- storage faults
\* what a storage call throws when it fails for another reason than a uniqueness
\* conflict (the database is locked or unreachable, a command times out): a
\* SaveChangesAsync throws DbUpdateException, without "UNIQUE constraint failed" in
\* the inner message, or an exception of another type; a query throws another type
SaveFaults == {"DbUpdateException", "InvalidOperationException"}

\* lines 120-136 when the save fails so: the filter of line 125 does not match, the
\* exception leaves through the catch of line 256
CreateFault(p) ==
  /\ ctx[p].pc = "create"
  /\ \E t \in SaveFaults :
       ctx' = [ctx EXCEPT ![p] = Finished(ctx[p], "failed", t)]
  /\ gh' = [gh EXCEPT ![p].faultAt = "create"]
  /\ UNCHANGED <<dbvars, runs, lastClean, outside>>

\* a save that inserts a relationship fails so: the handlers of lines 161 and 214
\* catch every DbUpdateException, clear the change tracker and let the loop go on;
\* an exception of another type leaves through the catch of line 256
RelationshipFault(p, cCaught) ==
  /\ \E t \in SaveFaults :
       ctx' = [ctx EXCEPT ![p] =
                 IF t = "DbUpdateException"
                   THEN NextItem([cCaught EXCEPT !.tracked = {}])
                   ELSE Finished(ctx[p], "failed", t)]
  /\ gh' = [gh EXCEPT ![p].faultAt = ctx[p].pc]
  /\ UNCHANGED <<dbvars, runs, lastClean, outside>>

\* lines 147-168 when the save fails so
AddRelNewFault(p) ==
  /\ ctx[p].pc = "addRelNew"
  /\ RelationshipFault(p, CountAdded(ctx[p]))

\* lines 199-218 when the save fails so
AddRelFault(p) ==
  /\ ctx[p].pc = "addRel"
  /\ RelationshipFault(p, ctx[p])

\* line 248 when the save fails so
FinalSaveFault(p) ==
  /\ ctx[p].pc = "save"
  /\ \E t \in SaveFaults :
       ctx' = [ctx EXCEPT ![p] = Finished(ctx[p], "failed", t)]
  /\ gh' = [gh EXCEPT ![p].faultAt = "save"]
  /\ UNCHANGED <<dbvars, runs, lastClean, outside>>

\* a query (lines 51, 95, 129, 142, 194, 236) fails: the exception leaves through the
\* catch of line 256
QueryFault(p) ==
  /\ ctx[p].pc \in {"load", "lookup", "refetch", "checkRelNew", "checkRel", "syncq"}
  /\ ctx' = [ctx EXCEPT ![p] = Finished(ctx[p], "failed", "InvalidOperationException")]
  /\ gh' = [gh EXCEPT ![p].faultAt = ctx[p].pc]
  /\ UNCHANGED <<dbvars, runs, lastClean, outside>>

\* ---------------------------------------------------------------- the fetcher
\* the "next" property of a page: missing, JSON null, a string that is empty, or the
\* URL of a later page
NoCursor == {[kind |-> k, page |-> 0] : k \in {"absent", "null", "empty"}}

Cursor(k) == NoCursor \cup {[kind |-> "url", page |-> n] : n \in (k + 1)..MaxPages}

\* the items a page can carry
PageItems == [id : RaceIds, tok : {0}]

\* what the API answers for page k: an error status, or a body whose "items" array may
\* be missing and whose "next" is a cursor
PagesAt(k) ==
  {[ok |-> o, hasItems |-> h, items |-> it, next |-> n] :
     o \in BOOLEAN, h \in BOOLEAN, it \in SeqsUpTo(PageItems, MaxPageLen), n \in Cursor(k)}

\* the pages the API holds: page 1 is the one at the fixed first URL
Chains ==
  {ch \in [1..MaxPages -> UNION {PagesAt(k) : k \in 1..MaxPages}] :
     \A k \in 1..MaxPages : ch[k] \in PagesAt(k) /\ (~ch[k].hasItems => ch[k].items = <<>>)}

\* var nextUrl = "https://api.spotify.com/v1/me/playlists?limit=50" (line 269)
FirstUrl == [kind |-> "url", page |-> 1]

\* lines 294-296: the string of "next" when the property is there and not JSON null,
\* null otherwise
NextUrlOf(next) ==
  IF next.kind \in {"url", "empty"} THEN next ELSE [kind |-> "null", page |-> 0]

\* string.IsNullOrEmpty(nextUrl), line 271
IsNullOrEmpty(u) == u.kind \in {"null", "empty"}

\* mutant: the items of the page replace the list
AppendedLastPageOnly(all, pg) == IF pg.hasItems THEN pg.items ELSE all

\* lines 285-291: every element of "items", when the page has the property, is added
\* to allPlaylists
Appended(all, pg) == IF pg.hasItems THEN all \o pg.items ELSE all

\* no fetch is being looked at
IdlePager ==
  [chain |-> <<>>, nextUrl |-> [kind |-> "null", page |-> 0], allPlaylists |-> <<>>,
   requested |-> <<>>, pc |-> "idle"]

\* the request whose call of line 45 the fetch belongs to
Fetching == "p1"

\* lines 271-297, one turn of the loop whose response is a success: the items are
\* added, nextUrl is set from "next", and the loop ends (line 299) when it is null or
\* empty; the list is then the spotifyPlaylists of line 45
PageOk ==
  LET pg == pager.chain[pager.nextUrl.page]
      url == NextUrlOf(pg.next)
  IN /\ pager.pc = "loop"
     /\ pg.ok
     /\ pager' = [pager EXCEPT !.allPlaylists = Appended(@, pg),
                               !.requested = Append(@, pager.nextUrl.page),
                               !.nextUrl = url,
                               !.pc = IF IsNullOrEmpty(url) THEN "returned" ELSE "loop"]
     /\ ctx' = IF IsNullOrEmpty(url)
                THEN [ctx EXCEPT ![Fetching].allPlaylists = Appended(pager.allPlaylists, pg),
                                 ![Fetching].pc = "load"]
                ELSE ctx
     /\ UNCHANGED <<now, provider, dbvars, runs, gh, lastClean>>

\* mutant: a page that answered with an error is requested again
PageErrorRetried ==
  LET pg == pager.chain[pager.nextUrl.page]
  IN /\ pager.pc = "loop"
     /\ ~pg.ok
     /\ pager' = [pager EXCEPT !.requested = Append(@, pager.nextUrl.page)]
     /\ UNCHANGED <<now, provider, service>>

\* lines 275-280, one turn of the loop whose response is an error: the fetch throws,
\* nothing in it catches, and the exception leaves SyncUserPlaylistsAsync through the
\* catch of line 256, which rethrows it
PageError ==
  LET pg == pager.chain[pager.nextUrl.page]
  IN /\ pager.pc = "loop"
     /\ ~pg.ok
     /\ pager' = [pager EXCEPT !.requested = Append(@, pager.nextUrl.page),
                               !.pc = "threw"]
     /\ \E kind \in FailKinds \ {"NoResponse"} :
          /\ ctx' = [ctx EXCEPT ![Fetching] =
                       Finished(ctx[Fetching], "failed", FetchException(kind))]
          /\ gh' = [gh EXCEPT ![Fetching].fetchFailed = TRUE, ![Fetching].failKind = kind]
     /\ UNCHANGED <<now, provider, dbvars, runs, lastClean>>

\* ---------------------------------------------------------------- the client
\* ListeningHistoryProvider as mounted: lastSyncAttemptRef = 0, isSyncingRef = false,
\* isSync = false, lastSyncTime = null (0), syncError = null; with the history of its
\* attempts: the times they started at, the calls of syncRecentlyPlayed still pending,
\* the last request it declined for the throttle [at, after], and whether it declined
\* a call because the current request was pending ("early" within the interval, "due"
\* after it)
MountedProvider ==
  [lastSyncAttemptRef |-> 0, isSyncingRef |-> FALSE, isSync |-> FALSE,
   lastSyncTime |-> 0, syncError |-> "null", inFlight |-> 0,
   starts |-> <<>>, lastOutcome |-> "none",
   throttled |-> [at |-> 0, after |-> "none"], guarded |-> "none"]

\* mutant: the interval is measured from the last successful sync
ThrottledSinceSuccess(pv, t) == t - pv.lastSyncTime < MIN_SYNC_INTERVAL_MS

\* now - lastSyncAttemptRef.current < MIN_SYNC_INTERVAL_MS
Throttled(pv, t) == t - pv.lastSyncAttemptRef < MIN_SYNC_INTERVAL_MS

\* mutant: manualSync without the check of isSyncingRef
ManualSyncUnguarded(d) ==
  LET pv == provider[d]
  IN /\ provider' = [provider EXCEPT ![d] =
          IF Throttled(pv, now)
            THEN [pv EXCEPT !.throttled = [at |-> now, after |-> pv.lastOutcome]]
            ELSE [pv EXCEPT !.isSyncingRef = TRUE,
                            !.lastSyncAttemptRef = now,
                            !.isSync = TRUE,
                            !.syncError = "null",
                            !.inFlight = @ + 1,
                            !.starts = Append(@, now),
                            !.lastOutcome = "pending",
                            !.guarded = "none"]]
     /\ UNCHANGED <<now, pager, service>>

\* manualSync up to its await: it returns at once while a sync is under way or the
\* interval has not passed; otherwise it takes the flag, notes the time of the
\* attempt and calls syncRecentlyPlayed
ManualSync(d) ==
  LET pv == provider[d]
  IN /\ provider' = [provider EXCEPT ![d] =
          IF pv.isSyncingRef
            THEN [pv EXCEPT !.guarded = IF Throttled(pv, now) THEN "early" ELSE "due"]
          ELSE IF Throttled(pv, now)
            THEN [pv EXCEPT !.throttled = [at |-> now, after |-> pv.lastOutcome]]
            ELSE [pv EXCEPT !.isSyncingRef = TRUE,
                            !.lastSyncAttemptRef = now,
                            !.isSync = TRUE,
                            !.syncError = "null",
                            !.inFlight = @ + 1,
                            !.starts = Append(@, now),
                            !.lastOutcome = "pending",
                            !.guarded = "none"]]
     /\ UNCHANGED <<now, pager, service>>

\* mutant: the finally block leaves the ref set
ReleaseSyncKeepsRef(pv) == [pv EXCEPT !.isSync = FALSE]

\* the finally block of manualSync
ReleaseSync(pv) == [pv EXCEPT !.isSync = FALSE, !.isSyncingRef = FALSE]

\* syncRecentlyPlayed resolves: setLastSyncTime(new Date()), then the finally block
SyncResolved(d) ==
  /\ provider[d].inFlight > 0
  /\ provider' = [provider EXCEPT ![d] =
        ReleaseSync([provider[d] EXCEPT !.lastSyncTime = now,
                                         !.inFlight = @ - 1,
                                         !.lastOutcome = "resolved"])]
  /\ UNCHANGED <<now, pager, service>>

\* syncRecentlyPlayed rejects: setSyncError(message), then the finally block
SyncRejected(d) ==
  /\ provider[d].inFlight > 0
  /\ provider' = [provider EXCEPT ![d] =
        ReleaseSync([provider[d] EXCEPT !.syncError = "message",
                                         !.inFlight = @ - 1,
                                         !.lastOutcome = "rejected"])]
  /\ UNCHANGED <<now, pager, service>>

\* time passes
Tick ==
  /\ now < MIN_SYNC_INTERVAL_MS + MaxTicks * TickMs
  /\ now' = now + TickMs
  /\ UNCHANGED <<provider, pager, service>>

\* ---------------------------------------------------------------- specification
\* the providers are mounted and no fetch is being looked at
InitOutside ==
  /\ now = MIN_SYNC_INTERVAL_MS
  /\ provider = [d \in Providers |-> MountedProvider]
  /\ pager = IdlePager

Init ==
  /\ playlists = {}
  /\ userPlaylists = {}
  /\ syncStates = {}
  /\ userPlaylistSeq = 0
  /\ runs = 0
  /\ ctx = [p \in Procs |-> IdleCtx]
  /\ gh = [p \in Procs |-> IdleGh]
  /\ lastClean = NoClean
  /\ InitOutside

Next ==
  \/ \E p \in Procs : Begin(p)
  \/ \E p \in Procs : FetchPage(p)
  \/ \E p \in Procs : FetchFail(p)
  \/ \E p \in Procs : LoadLocal(p)
  \/ \E p \in Procs : Lookup(p)
  \/ \E p \in Procs : Create(p)
  \/ \E p \in Procs : Refetch(p)
  \/ \E p \in Procs : CheckRelNew(p)
  \/ \E p \in Procs : AddRelNew(p)
  \/ \E p \in Procs : CheckRel(p)
  \/ \E p \in Procs : AddRel(p)
  \/ \E p \in Procs : SyncQuery(p)
  \/ \E p \in Procs : FinalSave(p)

Spec == Init /\ [][Next]_vars

\* the store as a completed sync of u1 over the catalog [A(0)] leaves it: the playlist
\* row, u1's relationship to it and u1's sync state row
InitSeeded ==
  /\ playlists = {[id |-> 1, sid |-> "A", tok |-> 0]}
  /\ userPlaylists = {[id |-> 1, userId |-> "u1", playlistId |-> 1, relation |-> "Subscriber"]}
  /\ syncStates = {[id |-> 1, userId |-> "u1", at |-> 0]}
  /\ userPlaylistSeq = 1
  /\ runs = 0
  /\ ctx = [p \in Procs |-> IdleCtx]
  /\ gh = [p \in Procs |-> IdleGh]
  /\ lastClean = NoClean
  /\ InitOutside

\* requests arriving at a store that already holds a user's playlists
SpecSeeded == InitSeeded /\ [][Next]_vars

\* the client: manualSync is called at any time (the timer of line 142, the interval of
\* line 147, a refresh by the user)
NextClient ==
  \/ \E d \in Providers : ManualSync(d)
  \/ \E d \in Providers : SyncResolved(d)
  \/ \E d \in Providers : SyncRejected(d)
  \/ Tick

SpecClient == Init /\ [][NextClient]_vars

\* the awaited call of syncRecentlyPlayed settles: the promise resolves or rejects
SpecClientFair ==
  SpecClient /\ \A d \in Providers : WF_vars(SyncResolved(d) \/ SyncRejected(d))

\* a sync calls FetchAllPlaylistsFromSpotifyAsync (line 45) while the API holds some
\* chain of pages
InitPager ==
  /\ playlists = {}
  /\ userPlaylists = {}
  /\ syncStates = {}
  /\ userPlaylistSeq = 0
  /\ runs = 1
  /\ ctx = [p \in Procs |-> IF p = Fetching
                                THEN [IdleCtx EXCEPT !.pc = "fetch", !.user = UserRow("u1")]
                                ELSE IdleCtx]
  /\ gh = [p \in Procs |-> IdleGh]
  /\ lastClean = NoClean
  /\ now = MIN_SYNC_INTERVAL_MS
  /\ provider = [d \in Providers |-> MountedProvider]
  /\ \E ch \in Chains :
       pager = [chain |-> ch, nextUrl |-> FirstUrl, allPlaylists |-> <<>>,
                requested |-> <<>>, pc |-> "loop"]

NextPager ==
  \/ PageOk
  \/ PageError

SpecPager == InitPager /\ [][NextPager]_vars

\* requests whose storage calls may fail
NextFault ==
  \/ Next
  \/ \E p \in Procs : CreateFault(p)
  \/ \E p \in Procs : AddRelNewFault(p)
  \/ \E p \in Procs : AddRelFault(p)
  \/ \E p \in Procs : FinalSaveFault(p)
  \/ \E p \in Procs : QueryFault(p)

SpecFault == InitSeeded /\ [][NextFault]_vars

\* requests for playlists that name their owner, by users whose row may be gone
NextOwner ==
  \/ \E p \in Procs : BeginOwner(p)
  \/ \E p \in Procs : FetchPageOwned(p)
  \/ \E p \in Procs : FetchFail(p)
  \/ \E p \in Procs : LoadLocal(p)
  \/ \E p \in Procs : Lookup(p)
  \/ \E p \in Procs : Create(p)
  \/ \E p \in Procs : Refetch(p)
  \/ \E p \in Procs : CheckRelNew(p)
  \/ \E p \in Procs : AddRelNew(p)
  \/ \E p \in Procs : CheckRel(p)
  \/ \E p \in Procs : AddRel(p)
  \/ \E p \in Procs : SyncQuery(p)
  \/ \E p \in Procs : FinalSave(p)

SpecOwner == Init /\ [][NextOwner]_vars

\* requests that may be abandoned at any await, over an empty or a filled store
NextResume ==
  \/ Next
  \/ \E p \in Procs : Abandon(p)

SpecResume == (Init \/ InitSeeded) /\ [][NextResume]_vars

\* requests served one at a time (no conflict, so no fallback read), wider catalogs
NextAlone ==
  \/ BeginAlone
  \/ \E p \in Procs : FetchPageWide(p)
  \/ \E p \in Procs : FetchFail(p)
  \/ \E p \in Procs : LoadLocal(p)
  \/ \E p \in Procs : Lookup(p)
  \/ \E p \in Procs : Create(p)
  \/ \E p \in Procs : CheckRelNew(p)
  \/ \E p \in Procs : AddRelNew(p)
  \/ \E p \in Procs : CheckRel(p)
  \/ \E p \in Procs : AddRel(p)
  \/ \E p \in Procs : SyncQuery(p)
  \/ \E p \in Procs : FinalSave(p)

SpecAlone == Init /\ [][NextAlone]_vars

\* ---------------------------------------------------------------- properties
Returned(p) == ctx[p].pc = "returned"

\* R: the ids of the remote set the request fetched
R(p) == SpotifyPlaylistIds(ctx[p])

\* L: the ids of the relationships the request loaded
L(p) == ExistingSpotifyIds(ctx[p])

\* a position of id e in the fetched list
ItemIndex(p, e) ==
  (CHOOSE i \in 1..Len(ctx[p].allPlaylists) : ctx[p].allPlaylists[i].id = e)

\* the ids of R whose playlist row existed, with another snapshot, when the request
\* loaded L
Changed(p) ==
  {e \in R(p) : \E t \in gh[p].tok0 :
                   t.sid = e /\ t.tok # ctx[p].allPlaylists[ItemIndex(p, e)].tok}

\* the rows the request inserted into UserPlaylists for id e
InsertedFor(p, e) == {x \in gh[p].insRel : x.sid = e}

\* the UPDATE statements the request issued for the playlist with id e
UpdatesFor(p, e) == {x \in gh[p].updApplied : x.sid = e}

\* C1 (convergence): when a sync of user u returns and no other sync of u overlapped
\* it, the SpotifyIds of u's UserPlaylists rows are, at that moment, exactly the ids
\* of the remote set R it fetched.
C1_Convergence ==
  \A p \in Procs :
    (Returned(p) /\ ~gh[p].overlapSame) => gh[p].retRel = R(p)

\* a sync returned that had to both drop a relationship and add one
C1_Witness ==
  \E p \in Procs :
    /\ Returned(p) /\ ~gh[p].overlapSame
    /\ L(p) \ R(p) # {}
    /\ R(p) \ L(p) # {}

\* C2 (idempotence): a sync that fetched the same remote catalog as the sync of the
\* same user that returned just before it, with no other sync in between or
\* overlapping, returns added = updated = removed = 0 and has written no Playlists row
\* and no UserPlaylists row.
C2_Idempotence ==
  \A p \in Procs :
    (Returned(p) /\ gh[p].second /\ ~gh[p].overlapAny) =>
      /\ ctx[p].result = NoResult
      /\ ~gh[p].wrote
      /\ gh[p].insRel = {} /\ gh[p].delRel = {} /\ gh[p].updApplied = {} /\ gh[p].insPl = {}

\* the second of two runs over a catalog of two playlists has returned
C2_Witness ==
  \E p \in Procs :
    /\ Returned(p) /\ gh[p].second /\ ~gh[p].overlapAny
    /\ Cardinality(R(p)) = 2

\* C3 (canonical uniqueness): no two Playlists rows have the same SpotifyId.
C3_CanonicalUnique ==
  \A r1, r2 \in playlists : r1.sid = r2.sid => r1 = r2

\* two requests looked the same id up, both found no row, one inserted it and the
\* other was rejected
C3_Witness ==
  \E p, q \in Procs : \E e \in RaceIds :
    /\ p # q
    /\ e \in gh[p].sawAbsent /\ e \in gh[q].sawAbsent
    /\ e \in gh[p].insPl /\ e \in gh[q].fellBack

\* C4: a sync whose fetch failed at some page has thrown, has marked no relationship
\* for removal and has deleted none.
C4_FailedFetchRemovesNothing ==
  \A p \in Procs :
    gh[p].fetchFailed =>
      /\ ctx[p].pc = "failed"
      /\ ctx[p].deleted = {} /\ ctx[p].result.removed = 0
      /\ gh[p].delRel = {} /\ ~gh[p].wrote

\* the fetch failed after a page that lacks a playlist the user is related to
C4_Witness ==
  \E p \in Procs :
    /\ gh[p].fetchFailed
    /\ ctx[p].allPlaylists # <<>>
    /\ RelSids(ctx[p].userId) \ R(p) # {}

\* the loaded relationships whose SpotifyId the remote set lacks
Gone(p) == {l \in ctx[p].existingUserPlaylists : l.sid \notin R(p)}

Key(r) == [userId |-> r.userId, playlistId |-> r.playlistId]

\* C5 (removal): a sync marks for deletion only loaded relationships whose SpotifyId
\* is absent from R, and a sync that returns has deleted exactly the loaded
\* relationships whose SpotifyId is absent from R, one row each, and reports their
\* number as removed.
C5_RemovalCorrect ==
  \A p \in Procs :
    /\ ctx[p].deleted \subseteq Gone(p)
    /\ Returned(p) =>
         /\ {Key(d) : d \in gh[p].delRel} = {Key(l) : l \in Gone(p)}
         /\ Cardinality(gh[p].delRel) = Cardinality(Gone(p))
         /\ ctx[p].result.removed = Cardinality(Gone(p))
         /\ \A d \in gh[p].delRel :
              \A r \in playlists : r.id = d.playlistId => r.sid \notin R(p)

\* a sync returned that deleted one loaded relationship and kept another
C5_Witness ==
  \E p \in Procs :
    /\ Returned(p)
    /\ gh[p].delRel # {}
    /\ L(p) \cap R(p) # {}

\* C6 (addition): a sync that returns, with no other sync of its user overlapping it,
\* has inserted exactly one UserPlaylists row for every id of R that was not in L and
\* none for any other id, and reports their number as added -- whether it created
\* the playlist row or found it, and however often the id is listed.
C6_AdditionCorrect ==
  \A p \in Procs :
    (Returned(p) /\ ~gh[p].overlapSame) =>
      /\ \A e \in R(p) \ L(p) : Cardinality(InsertedFor(p, e)) = 1
      /\ \A x \in gh[p].insRel : x.sid \in R(p) \ L(p)
      /\ ctx[p].result.added = Cardinality(R(p) \ L(p))

\* a sync returned whose catalog lists one id twice, whose playlist row another
\* user's sync had created, and it added one relationship
C6_Witness ==
  \E p \in Procs :
    /\ Returned(p) /\ ~gh[p].overlapSame
    /\ Len(ctx[p].allPlaylists) = 2
    /\ ctx[p].allPlaylists[1].id = ctx[p].allPlaylists[2].id
    /\ gh[p].insPl = {}
    /\ ctx[p].result.added = 1

\* C7 (update detection): in a sync that returns with no sync overlapping it, a
\* playlist of R whose row existed with another snapshot_id is written by exactly one
\* UPDATE, a playlist whose row had the same snapshot_id (or was created by the sync)
\* by none, and updated is the number of the former.
C7_UpdateDetection ==
  \A p \in Procs :
    (Returned(p) /\ ~gh[p].overlapAny) =>
      /\ \A e \in R(p) :
           Cardinality(UpdatesFor(p, e)) = IF e \in Changed(p) THEN 1 ELSE 0
      /\ ctx[p].result.updated = Cardinality(Changed(p))

\* a sync returned that found one playlist changed and another unchanged
C7_Witness ==
  \E p \in Procs :
    /\ Returned(p) /\ ~gh[p].overlapAny
    /\ Changed(p) # {}
    /\ \E e \in R(p) \ Changed(p) : \E t \in gh[p].tok0 : t.sid = e

ExampleRemote ==
  <<[id |-> "A", tok |-> 1], [id |-> "B", tok |-> 1], [id |-> "C", tok |-> 1]>>

ExampleLocal ==
  {[sid |-> "A", tok |-> 1], [sid |-> "B", tok |-> 0], [sid |-> "D", tok |-> 1]}

\* the request fetched [A(1), B(1), C(1)] for a user related to exactly A(1), B(0), D(1)
AtExample(p) ==
  /\ ctx[p].allPlaylists = ExampleRemote
  /\ L(p) = {"A", "B", "D"}
  /\ gh[p].tok0 = ExampleLocal

\* C8 (summary): a sync that returns with no sync overlapping it reports
\* added = |R \ L|, removed = |L \ R| and updated = the number of playlists of R whose
\* row existed with another snapshot_id, and leaves the user related to exactly R; for
\* remote [A(1), B(1), C(1)] against local [A(1), B(0), D(1)] that is 1, 1, 1 and
\* {A, B, C}.
C8_SummaryIsDiff ==
  \A p \in Procs :
    (Returned(p) /\ ~gh[p].overlapAny) =>
      /\ ctx[p].result = [added |-> Cardinality(R(p) \ L(p)),
                          updated |-> Cardinality(Changed(p)),
                          removed |-> Cardinality(L(p) \ R(p))]
      /\ AtExample(p) =>
           /\ ctx[p].result = [added |-> 1, updated |-> 1, removed |-> 1]
           /\ gh[p].retRel = {"A", "B", "C"}

\* the sync of the example has returned
C8_Witness ==
  \E p \in Procs : Returned(p) /\ ~gh[p].overlapAny /\ AtExample(p)

\* C9 (first-observation race): when the syncs of two different users have both
\* looked up the same id and found no row, neither fails, and once both have returned
\* exactly one of them inserted the playlist row, the other was rejected and read the
\* row back, there is one row for the id, and each user has a relationship to it.
C9_FirstObservationRace ==
  \A p, q \in Procs : \A e \in RaceIds :
    (/\ p # q
     /\ ctx[p].userId # ctx[q].userId
     /\ e \in gh[p].sawAbsent /\ e \in gh[q].sawAbsent) =>
      /\ ctx[p].pc # "failed" /\ ctx[q].pc # "failed"
      /\ (Returned(p) /\ Returned(q)) =>
           /\ (e \in gh[p].insPl) # (e \in gh[q].insPl)
           /\ e \in gh[p].insPl => e \in gh[q].fellBack /\ e \notin gh[p].fellBack
           /\ Cardinality(PlaylistsBySid(e)) = 1
           /\ \A r \in PlaylistsBySid(e) :
                /\ Cardinality(RelRows(ctx[p].userId, r.id)) = 1
                /\ Cardinality(RelRows(ctx[q].userId, r.id)) = 1

\* both syncs of the race have returned
C9_Witness ==
  \E p, q \in Procs : \E e \in RaceIds :
    /\ p # q /\ ctx[p].userId # ctx[q].userId
    /\ e \in gh[p].sawAbsent /\ e \in gh[q].sawAbsent
    /\ Returned(p) /\ Returned(q)

\* C10 (relationship uniqueness): no two UserPlaylists rows have the same
\* (UserId, PlaylistId).
C10_RelationshipUnique ==
  \A r1, r2 \in userPlaylists : Key(r1) = Key(r2) => r1 = r2

\* two syncs of one user are both about to insert the relationship to the same
\* playlist, which neither had loaded and neither found in its check
C10_Witness ==
  \E p, q \in Procs :
    /\ p # q /\ ctx[p].userId = ctx[q].userId
    /\ ctx[p].pc \in {"addRel", "addRelNew"} /\ ctx[q].pc \in {"addRel", "addRelNew"}
    /\ ctx[p].cur = ctx[q].cur

\* C11 (referential integrity): every UserPlaylists row references a Playlists row
\* that exists; a request that is checking or inserting a relationship holds the key of
\* the stored playlist row of the item it is at (the row it just inserted or read);
\* and no step removes a Playlists row or changes its key or SpotifyId.
C11_ReferentialIntegrity ==
  /\ [](/\ \A up \in userPlaylists : \E r \in playlists : r.id = up.playlistId
        /\ \A p \in Procs :
             ctx[p].pc \in {"checkRelNew", "addRelNew", "checkRel", "addRel"} =>
               \E r \in playlists : r.id = ctx[p].cur /\ r.sid = Item(ctx[p]).id)
  /\ [][\A r \in playlists : \E r2 \in playlists' : r2.id = r.id /\ r2.sid = r.sid]_vars

\* one sync inserted a relationship to a playlist row it had just inserted, another
\* to a playlist row it had read
C11_Witness ==
  \E p, q \in Procs :
    /\ \E x \in gh[p].insRel : x.sid \in gh[p].insPl
    /\ \E x \in gh[q].insRel : x.sid \notin gh[q].insPl
    /\ \A x \in gh[p].insRel \cup gh[q].insRel : \E up \in userPlaylists : up.id = x.id

\* C12 (conflicts are recovered): a request whose INSERT of a playlist row is rejected
\* because the SpotifyId is taken writes nothing and goes on to the fallback read,
\* which finds the row and leaves the request running; a request whose INSERT of a
\* relationship is rejected because (UserId, PlaylistId) is taken leaves UserPlaylists
\* as it is and goes on with the next item; neither step makes the request fail.
C12_ConflictsRecovered ==
  [][\A p \in Procs :
       /\ (ctx[p].pc = "create" /\ PlaylistsBySid(Item(ctx[p]).id) # {} /\ ctx'[p] # ctx[p]) =>
            /\ ctx'[p].pc = "refetch"
            /\ UNCHANGED dbvars
       /\ (ctx[p].pc = "refetch" /\ ctx'[p] # ctx[p]) =>
            /\ PlaylistsBySid(Item(ctx[p]).id) # {}
            /\ ctx'[p].pc # "failed"
            /\ UNCHANGED dbvars
       /\ (/\ ctx[p].pc \in {"addRel", "addRelNew"}
           /\ RelRows(ctx[p].userId, ctx[p].cur) # {}
           /\ ctx'[p] # ctx[p]) =>
            /\ ctx'[p].pc # "failed"
            /\ userPlaylists' = userPlaylists]_vars

\* a sync that lost the race for a playlist row and then the race for the relationship
\* to it has returned
C12_Witness ==
  \E p \in Procs : \E e \in RaceIds :
    /\ Returned(p)
    /\ e \in gh[p].fellBack
    /\ e \in gh[p].relConflict

\* a request is over: it returned its result or threw
Over(p) == ctx[p].pc \in {"returned", "failed"}

\* C13 (overlapping syncs of one user): when two syncs of the same user that overlapped
\* each other and fetched the same catalog are both over, both have returned a result
\* and the SpotifyIds of the user's UserPlaylists rows are the ids of that catalog.
C13_OverlappingSameUser ==
  \A p, q \in Procs :
    (/\ p # q
     /\ ctx[p].userId = ctx[q].userId
     /\ gh[p].overlapSame /\ gh[q].overlapSame
     /\ ctx[p].allPlaylists = ctx[q].allPlaylists
     /\ ~gh[p].fetchFailed /\ ~gh[q].fetchFailed
     /\ Over(p) /\ Over(q)) =>
      /\ Returned(p) /\ Returned(q)
      /\ RelSids(ctx[p].userId) = R(p)

\* C14 (typed failure): a sync whose page request was rejected for its credential
\* (401 Unauthorized) fails with another type of failure than a sync whose page
\* request failed in any other way, so that the caller can tell AuthExpired from
\* NetworkError by the failure it receives.
C14_TypedFailure ==
  \A p, q \in Procs :
    (/\ gh[p].fetchFailed /\ gh[q].fetchFailed
     /\ gh[p].failKind = "Unauthorized"
     /\ gh[q].failKind # "Unauthorized") =>
      ctx[p].outcome # ctx[q].outcome

\* C15 (resumability): a sync that starts after an earlier sync of the same user threw
\* or was abandoned (wherever that one stopped), and returns with no other sync of the
\* user overlapping it, leaves the user related to exactly the ids of the catalog R it
\* fetched, with exactly one Playlists row for each id of R.
C15_Resumable ==
  \A p \in Procs :
    (Returned(p) /\ gh[p].resumed /\ ~gh[p].overlapSame) =>
      /\ gh[p].retRel = R(p)
      /\ \A e \in R(p) : Cardinality(PlaylistsBySid(e)) = 1

\* the earlier sync was abandoned after it had inserted a playlist row and before it
\* inserted the relationship to it; the next sync of the user, whose catalog has that
\* playlist, has returned
C15_Witness ==
  \E p, q \in Procs : \E e \in RaceIds :
    /\ p # q
    /\ Returned(p) /\ gh[p].resumed /\ ~gh[p].overlapSame
    /\ ctx[q].outcome = "abandoned" /\ ctx[q].userId = ctx[p].userId
    /\ e \in gh[q].insPl /\ gh[q].insRel = {}
    /\ e \in R(p)

\* the attempts of provider d: the positions in its list of start times
Attempts(d) == 1..Len(provider[d].starts)

RECURSIVE Walk(_, _)
Walk(ch, k) ==
  IF ch[k].next.kind = "url" THEN <<k>> \o Walk(ch, ch[k].next.page) ELSE <<k>>

\* the items of the pages of a path, in the order of the path
RECURSIVE ItemsAlong(_, _)
ItemsAlong(ch, path) ==
  IF path = <<>> THEN <<>>
  ELSE (IF ch[Head(path)].hasItems THEN ch[Head(path)].items ELSE <<>>)
         \o ItemsAlong(ch, Tail(path))

IsPrefix(a, b) == Len(a) <= Len(b) /\ \A i \in 1..Len(a) : a[i] = b[i]

\* C18 (exhaustive pagination): the fetcher requests the pages in the order of the
\* chain that starts at the first page and follows each page's cursor, each once; it
\* returns exactly when it has read the first page without a cursor, having requested
\* every page of the chain, and what it returns is the items of those pages
\* concatenated in that order; it stops earlier only by throwing at a page that
\* answered with an error.
C18_ExhaustivePagination ==
  LET path == Walk(pager.chain, 1)
  IN pager.pc # "idle" =>
       /\ IsPrefix(pager.requested, path)
       /\ \A i, j \in 1..Len(pager.requested) :
            i # j => pager.requested[i] # pager.requested[j]
       /\ pager.pc = "loop" =>
            /\ Len(pager.requested) < Len(path)
            /\ pager.allPlaylists = ItemsAlong(pager.chain, pager.requested)
       /\ pager.pc = "returned" =>
            /\ pager.requested = path
            /\ pager.allPlaylists = ItemsAlong(pager.chain, path)
       /\ pager.pc = "threw" =>
            ~pager.chain[pager.requested[Len(pager.requested)]].ok

\* the fetcher returned after a chain of three pages, one of them without items, that
\* carried two items in all
C18_Witness ==
  /\ pager.pc = "returned"
  /\ Len(pager.requested) = 3
  /\ \E i \in 1..3 : pager.chain[i].items = <<>>
  /\ Len(pager.allPlaylists) = 2
  /\ pager.allPlaylists[1] # pager.allPlaylists[2]

C20_StorageErrorFatal ==
  \A p \in Procs : gh[p].faultAt # "none" => ctx[p].pc = "failed"

\* C21 (added counts genuine creations): the added counter of a sync that returns is
\* the number of UserPlaylists rows that this sync itself inserted; an item whose
\* relationship the sync did not insert (the row was there, or the insert was
\* rejected) is not counted.
C21_AddedCountsInsertions ==
  \A p \in Procs :
    Returned(p) => ctx[p].result.added = Cardinality(gh[p].insRel)

\* C22 (updates are persisted): a sync that returns has written every playlist it
\* counted in updated: the number it reports is the number of UPDATE statements its
\* saves issued, each carrying the fetched item's values -- also when the insert of a
\* relationship was rejected and ignored later in the pass.
C22_UpdatesPersisted ==
  \A p \in Procs :
    Returned(p) => ctx[p].result.updated = Cardinality(gh[p].updApplied)

\* the SpotifyId of the playlist a UserPlaylists row references
SidOf(up) == (CHOOSE r \in playlists : r.id = up.playlistId).sid

\* C23 (hard delete): when a sync returns, the user is related to none of the
\* playlists whose relationship it removed (no row is left for the pair); and when the
\* next sync of the user, run after it with nothing overlapping, fetches a catalog
\* that has such a playlist again, that sync did not load a relationship to it,
\* inserts exactly one new UserPlaylists row for it, leaves the user related to it and
\* counts it in added.
C23_HardDelete ==
  /\ \A p \in Procs :
       Returned(p) => \A l \in Gone(p) : l.sid \notin gh[p].retRel
  /\ \A p, q \in Procs :
       (/\ p # q
        /\ Returned(p) /\ Returned(q)
        /\ ctx[p].userId = ctx[q].userId
        /\ gh[q].prev.ok /\ gh[q].prev.R = ctx[p].allPlaylists
        /\ ~gh[q].overlapAny) =>
         \A d \in gh[p].delRel :
           SidOf(d) \in R(q) =>
             /\ SidOf(d) \notin L(q)
             /\ Cardinality(InsertedFor(q, SidOf(d))) = 1
             /\ SidOf(d) \in gh[q].retRel
             /\ ctx[q].result.added = Cardinality(R(q) \ L(q))

\* a sync removed the user's relationship to a playlist, and the next sync of the
\* user, whose catalog has the playlist again, has returned
C23_Witness ==
  \E p, q \in Procs :
    /\ p # q
    /\ Returned(p) /\ Returned(q)
    /\ ctx[p].userId = ctx[q].userId
    /\ gh[q].prev.ok /\ gh[q].prev.R = ctx[p].allPlaylists
    /\ ~gh[q].overlapAny
    /\ \E d \in gh[p].delRel : SidOf(d) \in R(q) /\ InsertedFor(q, SidOf(d)) # {}

\* C24 (no retry): a page request that was answered with an error is the last request
\* the fetch made and was made once: that page is not requested again and no later
\* page is requested; the fetch has thrown, and the sync that called it has failed
\* with that exception, which is what its caller receives.
C24_NoRetry ==
  \A i \in 1..Len(pager.requested) :
    ~pager.chain[pager.requested[i]].ok =>
      /\ i = Len(pager.requested)
      /\ \A j \in 1..Len(pager.requested) : j # i => pager.requested[j] # pager.requested[i]
      /\ pager.pc = "threw"
      /\ ctx[Fetching].pc = "failed"
      /\ ctx[Fetching].outcome = "Exception"
      /\ ctx[Fetching].allPlaylists = <<>>

\* the fetch threw at the second page, after a page of one item, while a third page
\* was there to be read
C24_Witness ==
  /\ pager.pc = "threw"
  /\ Len(pager.requested) = 2
  /\ Len(pager.allPlaylists) = 1
  /\ pager.chain[pager.requested[2]].next.kind = "url"
  /\ ctx[Fetching].pc = "failed"

\* C25 (a failed fetch changes nothing): a sync whose fetch failed, at the first page
\* or at a later one, has read nothing from the store and written nothing to it: it
\* loaded no relationship, inserted or updated no Playlists row, inserted or deleted no
\* UserPlaylists row, and counted nothing; and no step a sync takes while it is
\* fetching, the failing one included, changes Playlists, UserPlaylists or
\* SpotifySyncStates.
C25_FailedFetchChangesNothing ==
  /\ [](\A p \in Procs :
          gh[p].fetchFailed =>
            /\ ctx[p].pc = "failed"
            /\ ctx[p].existingUserPlaylists = {} /\ gh[p].tok0 = {} /\ gh[p].sawAbsent = {}
            /\ gh[p].insPl = {} /\ gh[p].updApplied = {}
            /\ gh[p].insRel = {} /\ gh[p].delRel = {} /\ ~gh[p].wrote
            /\ ctx[p].result = NoResult)
  /\ [][\A p \in Procs :
          (ctx[p].pc = "fetch" /\ ctx'[p] # ctx[p]) =>
            /\ UNCHANGED dbvars
            /\ ctx'[p].pc \in {"fetch", "load", "failed"}
            /\ ctx'[p].existingUserPlaylists = {} /\ ctx'[p].tracked = {}]_vars

\* the fetch of u1's sync failed after a page that lacks the playlist u1 is related
\* to, and the relationship and the sync state row are as they were
C25_Witness ==
  \E p \in Procs :
    /\ gh[p].fetchFailed
    /\ ctx[p].userId = "u1"
    /\ ctx[p].allPlaylists # <<>> /\ "A" \notin R(p)
    /\ [id |-> 1, userId |-> "u1", playlistId |-> 1, relation |-> "Subscriber"] \in userPlaylists
    /\ [id |-> 1, userId |-> "u1", at |-> 0] \in syncStates

\* C26 (the sync state is written last): a step of a sync that changes
\* SpotifySyncStates is its last step, the save with which it returns, taken when the
\* fetch is over, the loop has passed every item and the removals are marked; it
\* changes the row of the sync's user only; and a step with which a sync throws or is
\* abandoned leaves SpotifySyncStates as it is, so a sync that does not return has not
\* changed the user's row.
C26_SyncStateWrittenLast ==
  [][\A p \in Procs :
       ctx'[p] # ctx[p] =>
         /\ syncStates' # syncStates =>
              /\ ctx[p].pc = "save" /\ ctx'[p].pc = "returned"
              /\ ctx[p].idx = Len(ctx[p].allPlaylists)
              /\ ctx[p].deleted = Gone(p)
              /\ \A s \in syncStates : s.userId # ctx[p].userId => s \in syncStates'
              /\ \A s \in syncStates' \ syncStates : s.userId = ctx[p].userId
         /\ ctx'[p].pc # "returned" => syncStates' = syncStates]_vars

\* a sync of u1 was abandoned after it had inserted a relationship, and u1's sync
\* state row carries the time it had before
C26_Witness ==
  \E p \in Procs :
    /\ ctx[p].outcome = "abandoned" /\ ctx[p].userId = "u1"
    /\ gh[p].insRel # {}
    /\ syncStates = {[id |-> 1, userId |-> "u1", at |-> 0]}

\* C27 (user isolation): every UserPlaylists row that a step of a sync inserts or
\* deletes carries the UserId the sync was called for; the rows of every other user
\* are, after any step of the sync, the rows they were before it, whichever syncs of
\* other users run at the same time and whichever playlists the rows reference.
C27_UserIsolation ==
  [][\A p \in Procs :
       ctx'[p] # ctx[p] =>
         /\ \A r \in userPlaylists' \ userPlaylists : r.userId = ctx[p].userId
         /\ \A r \in userPlaylists \ userPlaylists' : r.userId = ctx[p].userId
         /\ \A u \in Users \ {ctx[p].userId} :
              {r \in userPlaylists' : r.userId = u} = {r \in userPlaylists : r.userId = u}]_vars

\* a sync of u1 has deleted u1's relationship to a playlist to which u2 is related
\* too, by a sync that overlapped it, and u2's row is in the store
C27_Witness ==
  \E p, q \in Procs :
    /\ p # q
    /\ Returned(p) /\ ctx[p].userId = "u1" /\ ctx[q].userId = "u2"
    /\ gh[p].overlapAny
    /\ \E d \in gh[p].delRel :
         \E x \in gh[q].insRel :
           \E up \in userPlaylists :
             up.id = x.id /\ up.userId = "u2" /\ up.playlistId = d.playlistId

\* C28 (relation kind): every UserPlaylists row a sync inserts, on the path of a
\* playlist it created and on the path of a playlist that existed alike, has relation
\* Owner exactly when the item has an owner id, the user's row is found and the owner
\* id is the user's SpotifyId; it has relation Subscriber otherwise, also when the
\* owner id is missing or the user's row is not found.
C28_RelationKind ==
  [][\A p \in Procs :
       ctx'[p] # ctx[p] =>
         \A r \in userPlaylists' \ userPlaylists :
           (r.relation = "Owner") <=>
             /\ OwnerSpotifyId(Item(ctx[p])) # Null
             /\ ctx[p].user # NoUser
             /\ OwnerSpotifyId(Item(ctx[p])) = ctx[p].user.spotifyId]_vars

\* what manualSync and the settling of its request can change in a provider
ClientState(pv) ==
  <<pv.isSyncingRef, pv.isSync, pv.syncError, pv.lastSyncTime, pv.lastSyncAttemptRef,
    pv.inFlight, pv.starts>>

\* C29 (one request in flight): a provider has at most one call of the sync API
\* pending, and isSyncingRef and isSync are set exactly while it is; while the call is
\* pending, a step changes isSyncing, syncError, lastSyncTime, the time of the last
\* attempt or the calls made only by settling that call: a manualSync made meanwhile,
\* by the first timer, the interval or the user, within the throttle interval or after
\* it, starts no call and changes none of them.
C29_OneRequestInFlight ==
  /\ [](\A d \in Providers :
          /\ provider[d].inFlight <= 1
          /\ provider[d].isSyncingRef <=> provider[d].inFlight = 1
          /\ provider[d].isSync <=> provider[d].isSyncingRef)
  /\ [][\A d \in Providers :
          (provider[d].inFlight > 0 /\ ClientState(provider'[d]) # ClientState(provider[d])) =>
            /\ provider'[d].inFlight = provider[d].inFlight - 1
            /\ provider'[d].starts = provider[d].starts
            /\ provider'[d].lastSyncAttemptRef = provider[d].lastSyncAttemptRef]_vars

\* a provider declined a manualSync that came after the throttle interval had passed,
\* because its request, started then, is still pending
C29_Witness ==
  \E d \in Providers :
    /\ provider[d].guarded = "due"
    /\ provider[d].inFlight = 1
    /\ Len(provider[d].starts) = 1
    /\ now - provider[d].lastSyncAttemptRef >= MIN_SYNC_INTERVAL_MS

\* C30 (the client is released): a request that a provider started settles, and once
\* it has, by resolving or by rejecting, isSync is false, isSyncingRef is cleared and
\* nothing is pending; and a manualSync made when the last request was rejected and
\* the throttle interval has passed starts a new request.
C30_ClientReleased ==
  /\ \A d \in Providers :
       (provider[d].inFlight > 0) ~>
         (provider[d].inFlight = 0 /\ ~provider[d].isSync /\ ~provider[d].isSyncingRef)
  /\ [](\A d \in Providers :
          provider[d].lastOutcome \in {"resolved", "rejected"} =>
            /\ ~provider[d].isSync /\ ~provider[d].isSyncingRef
            /\ provider[d].inFlight = 0)
  /\ [][\A d \in Providers :
          (/\ provider[d].lastOutcome = "rejected"
           /\ ~Throttled(provider[d], now)
           /\ ManualSync(d)) =>
            /\ provider'[d].inFlight = 1
            /\ provider'[d].starts = Append(provider[d].starts, now)]_vars

\* a provider whose first request was rejected (none has resolved) has a second
\* request pending
C30_Witness ==
  \E d \in Providers :
    /\ Len(provider[d].starts) = 2
    /\ provider[d].lastSyncTime = 0
    /\ provider[d].inFlight = 1
    /\ provider[d].lastOutcome = "pending"

====
